---- MODULE Spec2Model ----
(***************************************************************************)
(* leetcode-sync: the incremental sync engine of src/src/test_config.js    *)
(* (sync, addToSubmissions, commit, getSubmissionData, getQuestionData)    *)
(* run against a version-control host (the octokit calls) and a submission *)
(* source (the graphql calls).  One step of the model is one network round *)
(* trip of the single async thread of control, together with the           *)
(* synchronous code that follows it up to the next await.                  *)
(***************************************************************************)
EXTENDS Integers, Sequences, FiniteSets, TLC

(***************************************************************************)
(* Bounds of the model.                                                    *)
(***************************************************************************)
\* number of distinct submission timestamps the source may hold
MaxTs == 4
\* number of invocations of sync on the same repository
MaxRuns == 2
\* page size of the submission listing: the code asks for `limit: 20` and
\* advances `offset += 20`; the model scales the one number both use
PageLimit == 2
\* the longest commit history the repository starts with (SpecCk)
MaxHist == 3
\* submissions made while sync is running (SpecConc)
MaxNew == 1

(***************************************************************************)
(* Program constants.                                                      *)
(***************************************************************************)
\* listCommits({per_page: 100})
per_page == 100
\* getInfo = async (maxRetries = 5, retryCount = 0)
getInfo_maxRetries == 5
\* delay(1000) before every listing request after the first
PAGE_DELAY_MS == 1000

\* const COMMIT_MESSAGE = '['  (messages are sequences of characters)
COMMIT_MESSAGE == <<"[">>
\* const LANG_TO_EXTENSION = { 'golang': 'go' }
LANG_TO_EXTENSION == [l \in {"golang"} |-> "go"]

Min(a, b) == IF a < b THEN a ELSE b

(***************************************************************************)
(* Values of the environment.                                              *)
(***************************************************************************)
\* submission timestamps (epoch seconds) straddle a day boundary, so that
\* the ISO date of a commit has a day part and a time-of-day part
TsBase == 86400 - 2
Timestamps == {TsBase + k : k \in 1..MaxTs}

alice == [name |-> "alice", email |-> "alice@example.org"]
bob == [name |-> "bob", email |-> "bob@example.org"]
People == {alice, bob}

Langs == {"golang", "rust"}

(***************************************************************************)
(* Date: new Date(ms).toISOString() and Date.parse(iso).  An ISO instant   *)
(* is kept as its calendar day and the milliseconds within the day.        *)
(***************************************************************************)
toISOString(ms) == [day |-> ms \div 86400000, msOfDay |-> ms % 86400000]
Date_parse(iso) == iso.day * 86400000 + iso.msOfDay

\* s.startsWith(prefix)
startsWith(s, prefix) ==
    /\ Len(s) >= Len(prefix)
    /\ SubSeq(s, 1, Len(prefix)) = prefix

VARIABLES
    \* the invocation: TEST_MODE or the hosted action, the credentials that
    \* are set, and what main's catch did with a failure
    mode, config, report,
    \* the submission source: the user's submissions, newest first
    leetcode,
    \* the version-control host: objects and the default branch's ref
    gitCommits, gitTrees, ref,
    \* position of the run and its outcome
    pc, outcome, error, run,
    \* locals of sync
    commits, mostRecentTimestamp, commitInfo,
    response, offset, submissions,
    latestCommitSHA, treeSHA, i, submissionData, submission,
    \* locals of the request closures and of commit
    retryCount, treeResponse, commitResponse,
    \* observation of the run: waits slept, attempts of the current request,
    \* entries examined, host calls issued, submissions whose ref update
    \* succeeded, and the record of the previous run
    waits, pageDelay, attempts, examined, calls, committed, prev

hostVars == <<gitCommits, gitTrees, ref>>
ckptVars == <<commits, mostRecentTimestamp, commitInfo>>
listVars == <<response, offset, submissions>>
loopVars == <<latestCommitSHA, treeSHA, i, submissionData, submission>>
reqVars == <<retryCount, waits, attempts>>
obsVars == <<pageDelay, examined, calls, committed, prev>>
vars == <<mode, config, report, leetcode, gitCommits, gitTrees, ref, pc, outcome, error, run,
          commits, mostRecentTimestamp, commitInfo, response, offset,
          submissions, latestCommitSHA, treeSHA, i, submissionData, submission,
          retryCount,
          treeResponse, commitResponse, waits, pageDelay, attempts, examined,
          calls, committed, prev>>

(***************************************************************************)
(* The submission source.  An entry of the listing carries id, timestamp,  *)
(* statusDisplay, lang and titleSlug; the listing is newest first, with    *)
(* strictly decreasing timestamps.                                         *)
(***************************************************************************)
EntryKinds == {"absent", "wrong", "golang", "rust"}

Entry(k, kind) ==
    [id |-> k,
     timestamp |-> TsBase + k,
     statusDisplay |-> IF kind = "wrong" THEN "Wrong Answer" ELSE "Accepted",
     lang |-> IF kind = "rust" THEN "rust" ELSE "golang",
     titleSlug |-> IF k % 2 = 1 THEN "two-sum" ELSE "add-two-numbers"]

\* the listing of the entries f marks present among k, k-1, .., 1
RECURSIVE Listing(_, _)
Listing(f, k) ==
    IF k = 0 THEN <<>>
    ELSE IF f[k] = "absent" THEN Listing(f, k - 1)
    ELSE <<Entry(k, f[k])>> \o Listing(f, k - 1)

Sources == {Listing(f, MaxTs) : f \in [1..MaxTs -> EntryKinds]}

\* submissionList(offset, limit): {hasNext, submissions}
submissionList(src, off, limit) ==
    [hasNext |-> off + limit < Len(src),
     submissions |-> SubSeq(src, off + 1, Min(off + limit, Len(src)))]

\* the entry of the source with this id (submissionDetails(submissionId))
submissionDetails(src, id) ==
    LET e == CHOOSE e \in {src[n] : n \in 1..Len(src)} : e.id = id
    IN  [lang |-> [name |-> e.lang], timestamp |-> e.timestamp,
         code |-> <<"code", e.id>>,
         runtimeDisplay |-> "1 ms", memoryDisplay |-> "2 MB"]

\* question(titleSlug)
question(titleSlug) ==
    [title |-> titleSlug, difficulty |-> "Easy", topicTags |-> <<"Array">>]

(***************************************************************************)
(* The version-control host.  A SHA is the index of the object in the      *)
(* host's store; gitCommits[sha] is the commit object, gitTrees[sha] the   *)
(* tree object.                                                            *)
(***************************************************************************)
\* the commit objects of a history given newest first as <<message, who, date>>
MkCommits(h) ==
    [n \in 1..Len(h) |->
        LET c == h[Len(h) - n + 1]
            stamp == [name |-> c[2].name, email |-> c[2].email,
                      date |-> toISOString(c[3] * 1000)]
        IN  [message |-> c[1], tree |-> n,
             parents |-> IF n = 1 THEN <<>> ELSE <<n - 1>>,
             author |-> stamp, committer |-> stamp]]

MkTrees(h) == [n \in 1..Len(h) |-> [base_tree |-> n - 1, tree |-> {}]]

\* the k-th first parent of a commit, 0 when the history is shorter; the
\* distance is halved so that long histories stay shallow to evaluate
RECURSIVE ancestor(_, _, _)
ancestor(store, sha, k) ==
    IF sha = 0 \/ k = 0 THEN sha
    ELSE IF k = 1
         THEN (IF store[sha].parents = <<>> THEN 0 ELSE store[sha].parents[1])
    ELSE ancestor(store, ancestor(store, sha, k \div 2), k - k \div 2)

\* repos.listCommits({per_page}): the branch's commits, newest first
Log(store, sha, n) ==
    LET len == Cardinality({k \in 0..(Min(n, Len(store)) - 1) :
                               ancestor(store, sha, k) # 0})
    IN  [k \in 1..len |->
            LET c == ancestor(store, sha, k - 1)
            IN  [sha |-> c, commit |-> store[c]]]

listCommits(store, head, perPage) == Log(store, head, perPage)

\* commit messages a repository may start with
SyncMessage == COMMIT_MESSAGE \o <<"E", "]">>
PlainMessage == <<"i", "n", "i", "t">>
InnerBracketMessage == <<"f", "[">>

\* histories of the runs' specification: an initial commit, possibly
\* followed by one commit of an earlier sync
RunHistories ==
    {<<<<PlainMessage, alice, TsBase>>>>}
    \cup {<<<<SyncMessage, alice, t>>, <<PlainMessage, alice, TsBase>>>> :
            t \in Timestamps}

\* histories of the checkpoint specification: every mix of marked and
\* unmarked commits by two authors
HistCommits ==
    {<<SyncMessage, alice, TsBase + 1>>, <<SyncMessage, bob, TsBase + 2>>,
     <<PlainMessage, alice, TsBase + 3>>, <<PlainMessage, bob, TsBase + 3>>,
     <<InnerBracketMessage, bob, TsBase + 4>>}
RECURSIVE SeqsUpTo(_, _)
SeqsUpTo(S, n) ==
    IF n = 0 THEN {<<>>}
    ELSE LET shorter == SeqsUpTo(S, n - 1)
         IN  shorter \cup {Append(q, x) : q \in shorter, x \in S}
CkHistories == SeqsUpTo(HistCommits, MaxHist) \ {<<>>}
CkSources ==
    {<<Entry(3, "rust"), Entry(2, "golang"), Entry(1, "wrong")>>}

NoCalls == [createTree |-> 0, createCommit |-> 0, updateRef |-> 0]

\* index.js main(): the four values of the configuration
Credentials ==
    {"GITHUB_TOKEN", "GITHUB_REPO", "LEETCODE_CSRF_TOKEN", "LEETCODE_SESSION"}

InitEnv(histories, sources, modes, configs) ==
    /\ mode \in modes
    /\ config \in configs
    /\ report = <<>>
    /\ leetcode \in sources
    /\ \E h \in histories :
          /\ gitCommits = MkCommits(h)
          /\ gitTrees = MkTrees(h)
          /\ ref = Len(h)
    /\ pc = "idle"
    /\ outcome = "none"
    /\ error = <<>>
    /\ run = 0
    /\ commits = <<>>
    /\ mostRecentTimestamp = 0
    /\ commitInfo = <<>>
    /\ response = <<>>
    /\ offset = 0
    /\ submissions = <<>>
    /\ latestCommitSHA = 0
    /\ treeSHA = 0
    /\ i = 0
    /\ submissionData = <<>>
    /\ submission = <<>>
    /\ retryCount = 0
    /\ treeResponse = 0
    /\ commitResponse = 0
    /\ waits = <<>>
    /\ pageDelay = 0
    /\ attempts = 0
    /\ examined = 0
    /\ calls = NoCalls
    /\ committed = <<>>
    /\ prev = <<>>

\* a hosted run with every credential set
InitWith(histories, sources) ==
    InitEnv(histories, sources, {"action"}, {Credentials})

Init == InitWith(RunHistories, Sources)
InitCk == InitWith(CkHistories, CkSources)

\* either way of invoking the program, with any of the credentials unset
InitMain ==
    InitEnv({<<<<PlainMessage, alice, TsBase>>>>}, CkSources,
            {"test", "action"}, SUBSET Credentials)

(***************************************************************************)
(* sync, lines 150-162: the checkpoint.  commitInfo starts as the author   *)
(* of the oldest fetched commit; the first fetched commit whose message    *)
(* starts with COMMIT_MESSAGE sets both and ends the scan.                 *)
(***************************************************************************)
\* variant: the scan has no `break`, so the oldest marked commit wins
RECURSIVE scanCommits_noBreak(_, _, _)
scanCommits_noBreak(data, n, default) ==
    IF n > Len(data) THEN default
    ELSE IF ~startsWith(data[n].commit.message, COMMIT_MESSAGE)
         THEN scanCommits_noBreak(data, n + 1, default)
    ELSE scanCommits_noBreak(data, n + 1,
             [commitInfo |-> data[n].commit.author,
              mostRecentTimestamp |->
                  Date_parse(data[n].commit.committer.date) \div 1000])

RECURSIVE scanCommits(_, _, _)
scanCommits(data, n, default) ==
    IF n > Len(data) THEN default
    ELSE IF ~startsWith(data[n].commit.message, COMMIT_MESSAGE)
         THEN scanCommits(data, n + 1, default)
    ELSE [commitInfo |-> data[n].commit.author,
          mostRecentTimestamp |->
              Date_parse(data[n].commit.committer.date) \div 1000]

resolveCheckpoint(data) ==
    scanCommits(data, 1,
                [commitInfo |-> data[Len(data)].commit.author,
                 mostRecentTimestamp |-> 0])

(***************************************************************************)
(* addToSubmissions, lines 102-126.  entryStep is the body of the loop for *)
(* one entry: "stop" is `return false`, "skip" is `continue`, "push" is    *)
(* submissions.push.                                                       *)
(***************************************************************************)
\* variant: `<` for `<=`, so the checkpoint's own submission is taken again
entryStep_lt(entry, mrt) ==
    IF entry.timestamp < mrt THEN "stop"
    ELSE IF entry.statusDisplay # "Accepted" THEN "skip"
    ELSE "push"

\* variant: the status is tested before the timestamp
entryStep_statusFirst(entry, mrt) ==
    IF entry.statusDisplay # "Accepted" THEN "skip"
    ELSE IF entry.timestamp <= mrt THEN "stop"
    ELSE "push"

\* variant: `return false` for `continue` on an entry that is not accepted
entryStep_stopOnWrong(entry, mrt) ==
    IF entry.timestamp <= mrt THEN "stop"
    ELSE IF entry.statusDisplay # "Accepted" THEN "stop"
    ELSE "push"

entryStep(entry, mrt) ==
    IF entry.timestamp <= mrt THEN "stop"
    ELSE IF entry.statusDisplay # "Accepted" THEN "skip"
    ELSE "push"

\* the result: the list after the pushes, the returned boolean, and how
\* many entries of the page the loop looked at
RECURSIVE addLoop(_, _, _, _)
addLoop(entries, n, subs, mrt) ==
    IF n > Len(entries)
    THEN [submissions |-> subs, ret |-> TRUE, examined |-> n - 1]
    ELSE LET step == entryStep(entries[n], mrt)
         IN  IF step = "stop"
             THEN [submissions |-> subs, ret |-> FALSE, examined |-> n]
             ELSE IF step = "skip"
             THEN addLoop(entries, n + 1, subs, mrt)
             ELSE addLoop(entries, n + 1,
                          Append(subs, [id |-> entries[n].id,
                                        titleSlug |-> entries[n].titleSlug]),
                          mrt)

addToSubmissions(resp, subs, mrt) == addLoop(resp.submissions, 1, subs, mrt)

(***************************************************************************)
(* The retry closures getSubmissions (lines 172-219) and getInfo (lines    *)
(* 330-350).                                                               *)
(***************************************************************************)
\* variant: the first page is given the retries of the later ones
maxRetries_always(resp) == 5

\* const maxRetries = response === null ? 0 : 5
maxRetries(resp) == IF resp = <<>> THEN 0 ELSE 5

\* variant: `>` for `>=`, one retry more than the budget
retriesExhausted_gt(count, max) == count > max

\* if (retryCount >= maxRetries) throw exception
retriesExhausted(count, max) == count >= max

\* variant: the delay is slept before the first request too
interPageDelay_always(resp) == PAGE_DELAY_MS

\* if (response !== null) await delay(1000): the delay slept before a
\* listing request, given the response of the request before it
interPageDelay(resp) == IF resp # <<>> THEN PAGE_DELAY_MS ELSE 0

\* variant: the offset moves one entry short of a page
nextOffset_short(off) == off + PageLimit - 1

\* variant: the offset is not advanced
nextOffset_stuck(off) == off

\* offset += 20
nextOffset(off) == off + PageLimit

RECURSIVE Pow3(_)
Pow3(n) == IF n = 0 THEN 1 ELSE 3 * Pow3(n - 1)
\* delay(3 ** retryCount * 1000)
backoffMs(count) == Pow3(count) * 1000

\* the budget of the request in flight
budget ==
    IF pc = "getSubmissions" THEN maxRetries(response) ELSE getInfo_maxRetries

(***************************************************************************)
(* sync, lines 255-282, and commit, lines 31-99.                           *)
(***************************************************************************)
\* for (i = submissions.length - 1; i >= 0; i--): indices here are 1-based
firstIndex(subs) == Len(subs)
nextIndex(n) == n - 1

\* the submission object assembled from the two lookups
enrich(ref_, details, q) ==
    [id |-> ref_.id, slug |-> ref_.titleSlug, title |-> q.title,
     lang |-> details.lang.name, timestamp |-> details.timestamp,
     code |-> details.code, difficulty |-> q.difficulty,
     tags |-> q.topicTags,
     runtimeDisplay |-> details.runtimeDisplay,
     memoryDisplay |-> details.memoryDisplay]

\* variant: the lookup is not guarded
hasExtension_any(lang) == TRUE

\* if (!LANG_TO_EXTENSION[submission.lang]) throw ...
hasExtension(lang) == lang \in DOMAIN LANG_TO_EXTENSION

\* variant: the timestamp is taken for milliseconds
commitDate_noMs(sub) == toISOString(sub.timestamp)

\* const date = new Date(submission.timestamp * 1000).toISOString()
commitDate(sub) == toISOString(sub.timestamp * 1000)

\* variant: the message does not start with the marker
commitMessage_noMarker(sub) == <<sub.difficulty, "]">>

\* `${COMMIT_MESSAGE}${difficulty}] [${tags}] [${runtime}] [${memory}]`
commitMessage(sub) == COMMIT_MESSAGE \o <<sub.difficulty, "]">>

\* the two files of the tree
treeData(sub) ==
    {<<sub.title, sub.slug,
       IF sub.lang \in DOMAIN LANG_TO_EXTENSION
       THEN LANG_TO_EXTENSION[sub.lang] ELSE "undefined">>,
     <<sub.title, "README.md">>}

\* variant: every tree is layered on the tree read at the start
newTree_startBase(sub, base) ==
    [base_tree |-> commits[1].commit.tree, tree |-> treeData(sub)]

\* the tree object of octokit.git.createTree
newTree(sub, base) == [base_tree |-> base, tree |-> treeData(sub)]

\* variant: every commit is given the head read at the start as parent
newCommit_staleParent(sub, tree, parent, info) ==
    LET stamp == [name |-> info.name, email |-> info.email,
                  date |-> toISOString(sub.timestamp * 1000)]
    IN  [message |-> COMMIT_MESSAGE \o <<sub.difficulty, "]">>,
         tree |-> tree, parents |-> <<commits[1].sha>>,
         author |-> stamp, committer |-> stamp]

\* the commit object of octokit.git.createCommit
newCommit(sub, tree, parent, info) ==
    LET stamp == [name |-> info.name, email |-> info.email,
                  date |-> commitDate(sub)]
    IN  [message |-> commitMessage(sub), tree |-> tree,
         parents |-> <<parent>>, author |-> stamp, committer |-> stamp]

(***************************************************************************)
(* Steps of a run.                                                         *)
(***************************************************************************)
\* error.stack: a thrown string has none
stack(exc) == IF exc.kind = "NoExtension" THEN "undefined" ELSE exc.kind

\* an exception leaves sync: main's catch logs it and the process ends
throw(exc) ==
    /\ pc' = "idle"
    /\ outcome' = "failed"
    /\ error' = <<exc>>
    /\ report' = <<[log |-> stack(exc), setFailed |-> mode # "test"]>>

\* sync returns after "Done syncing all submissions."
return ==
    /\ pc' = "idle"
    /\ outcome' = "done"
    /\ error' = <<>>
    /\ report' = <<>>

\* a new request is issued: the closure starts with retryCount = 0
issue(request) ==
    /\ pc' = request
    /\ retryCount' = 0
    /\ waits' = <<>>
    /\ attempts' = 0
    /\ UNCHANGED <<outcome, error, report>>

\* the exception of a failed execution of the request in flight
exception == [kind |-> "network", request |-> pc, attempt |-> attempts + 1]

\* index.js main(), lines 10-20: only TEST_MODE looks at the configuration;
\* the hosted action passes on whatever core.getInput returns
missingConfiguration == mode = "test" /\ config # Credentials

\* index.js main(): the program is started (again) on the same repository;
\* unless the configuration is found missing, sync is invoked and lists the
\* commits
sync ==
    /\ pc = "idle"
    /\ run < MaxRuns
    /\ run' = run + 1
    /\ prev' = IF run = 0 THEN <<>>
               ELSE <<[outcome |-> outcome, committed |-> committed,
                       resolved |-> commits # <<>>,
                       mostRecentTimestamp |-> mostRecentTimestamp]>>
    /\ IF missingConfiguration
       THEN throw([kind |-> "Error", request |-> "main", attempt |-> 0])
       ELSE /\ pc' = "listCommits"
            /\ outcome' = "running"
            /\ error' = <<>>
            /\ report' = <<>>
    /\ commits' = <<>>
    /\ mostRecentTimestamp' = 0
    /\ commitInfo' = <<>>
    /\ response' = <<>>
    /\ offset' = 0
    /\ submissions' = <<>>
    /\ latestCommitSHA' = 0
    /\ treeSHA' = 0
    /\ i' = 0
    /\ submissionData' = <<>>
    /\ submission' = <<>>
    /\ retryCount' = 0
    /\ treeResponse' = 0
    /\ commitResponse' = 0
    /\ waits' = <<>>
    /\ pageDelay' = 0
    /\ attempts' = 0
    /\ examined' = 0
    /\ calls' = NoCalls
    /\ committed' = <<>>
    /\ UNCHANGED <<mode, config, leetcode, hostVars>>

\* lines 142-167: the commits are listed, the checkpoint is resolved and
\* the first listing request is issued
listCommits_ok ==
    /\ pc = "listCommits"
    /\ LET data == listCommits(gitCommits, ref, per_page)
           ck == resolveCheckpoint(data)
       IN  /\ commits' = data
           /\ mostRecentTimestamp' = ck.mostRecentTimestamp
           /\ commitInfo' = ck.commitInfo
    /\ pageDelay' = interPageDelay(response)
    /\ issue("getSubmissions")
    /\ UNCHANGED <<mode, config, leetcode, hostVars, run, listVars, loopVars, treeResponse,
                   commitResponse, examined, calls, committed, prev>>

\* lines 199-205 and 227-239: a listing request succeeds, the page is
\* consumed, and the loop goes on to the next page or leaves
getSubmissions_ok ==
    /\ pc = "getSubmissions"
    /\ LET resp == submissionList(leetcode, offset, PageLimit)
           r == addToSubmissions(resp, submissions, mostRecentTimestamp)
       IN  /\ response' = <<resp>>
           /\ submissions' = r.submissions
           /\ examined' = r.examined
           /\ IF ~r.ret
              THEN /\ offset' = offset
                   /\ issue("repos_get")
                   /\ UNCHANGED pageDelay
              ELSE /\ offset' = nextOffset(offset)
                   /\ IF resp.hasNext
                      THEN /\ issue("getSubmissions")
                           /\ pageDelay' = interPageDelay(response')
                      ELSE /\ issue("repos_get")
                           /\ UNCHANGED pageDelay
    /\ UNCHANGED <<mode, config, leetcode, hostVars, run, ckptVars, loopVars, treeResponse,
                   commitResponse, calls, committed, prev>>

\* lines 206-218 and 338-349: a request fails; the exception is thrown when
\* the retries are used up, else the closure waits and runs again
request_catch ==
    /\ pc \in {"getSubmissions", "getSubmissionData"}
    /\ attempts' = attempts + 1
    /\ IF retriesExhausted(retryCount, budget)
       THEN /\ throw(exception)
            /\ UNCHANGED <<retryCount, waits>>
       ELSE /\ waits' = Append(waits, backoffMs(retryCount))
            /\ retryCount' = retryCount + 1
            /\ UNCHANGED <<pc, outcome, error, report>>
    /\ UNCHANGED <<mode, config, leetcode, hostVars, run, ckptVars, listVars, loopVars,
                   treeResponse, commitResponse, obsVars>>

\* lines 243-256: the default branch is read, the pointers are taken from
\* the newest fetched commit and the loop over the submissions starts
repos_get_ok ==
    /\ pc = "repos_get"
    /\ latestCommitSHA' = commits[1].sha
    /\ treeSHA' = commits[1].commit.tree
    /\ i' = firstIndex(submissions)
    /\ IF i' >= 1
       THEN issue("getSubmissionData")
       ELSE return /\ UNCHANGED reqVars
    /\ UNCHANGED <<mode, config, leetcode, hostVars, run, ckptVars, listVars, submissionData,
                   submission, treeResponse, commitResponse, obsVars>>

\* lines 332-337, 352 and 257: the details arrive, the question is asked
getInfo_ok ==
    /\ pc = "getSubmissionData"
    /\ submissionData' = <<submissionDetails(leetcode, submissions[i].id)>>
    /\ issue("getQuestionData")
    /\ UNCHANGED <<mode, config, leetcode, hostVars, run, ckptVars, listVars,
                   latestCommitSHA, treeSHA, i, submission, treeResponse,
                   commitResponse, obsVars>>

\* lines 375-380 and 259-286: the question arrives, the submission object
\* is assembled and commit is called
getQuestionData_ok ==
    /\ pc = "getQuestionData"
    /\ submission' = <<enrich(submissions[i], submissionData[1],
                              question(submissions[i].titleSlug))>>
    /\ pc' = "commit"
    /\ attempts' = attempts + 1
    /\ UNCHANGED <<mode, config, leetcode, hostVars, run, outcome, error, report,
                   ckptVars,
                   listVars, latestCommitSHA, treeSHA, i, submissionData,
                   retryCount, waits, treeResponse, commitResponse, obsVars>>

\* lines 381-383 and 261: the question request fails, the catch logs and
\* returns undefined, and reading questionData.data throws a TypeError
getQuestionData_catch ==
    /\ pc = "getQuestionData"
    /\ attempts' = attempts + 1
    /\ throw([kind |-> "TypeError", request |-> pc, attempt |-> attempts + 1])
    /\ UNCHANGED <<mode, config, leetcode, hostVars, run, ckptVars, listVars, loopVars,
                   retryCount, waits, treeResponse, commitResponse, obsVars>>

\* commit, lines 43-67: the extension is looked up and createTree is called
commit_begin ==
    /\ pc = "commit"
    /\ IF ~hasExtension(submission[1].lang)
       THEN throw([kind |-> "NoExtension", request |-> pc, attempt |-> 0])
            /\ UNCHANGED reqVars
       ELSE issue("createTree")
    /\ UNCHANGED <<mode, config, leetcode, hostVars, run, ckptVars, listVars, loopVars,
                   treeResponse, commitResponse, obsVars>>

\* commit, lines 62-67
createTree_ok ==
    /\ pc = "createTree"
    /\ gitTrees' = Append(gitTrees, newTree(submission[1], treeSHA))
    /\ treeResponse' = Len(gitTrees) + 1
    /\ calls' = [calls EXCEPT !.createTree = @ + 1]
    /\ issue("createCommit")
    /\ UNCHANGED <<mode, config, leetcode, gitCommits, ref, run, ckptVars, listVars,
                   loopVars, commitResponse, pageDelay, examined, committed,
                   prev>>

\* commit, lines 69-86
createCommit_ok ==
    /\ pc = "createCommit"
    /\ gitCommits' = Append(gitCommits,
                            newCommit(submission[1], treeResponse,
                                      latestCommitSHA, commitInfo))
    /\ commitResponse' = Len(gitCommits) + 1
    /\ calls' = [calls EXCEPT !.createCommit = @ + 1]
    /\ issue("updateRef")
    /\ UNCHANGED <<mode, config, leetcode, gitTrees, ref, run, ckptVars, listVars, loopVars,
                   treeResponse, pageDelay, examined, committed, prev>>

\* commit, lines 88-98, and sync, lines 286 and 255-256: the branch is
\* moved, the pointers are taken over and the loop goes on or ends
updateRef_ok ==
    /\ pc = "updateRef"
    /\ ref' = commitResponse
    /\ calls' = [calls EXCEPT !.updateRef = @ + 1]
    /\ committed' = Append(committed, submission[1].id)
    /\ treeSHA' = treeResponse
    /\ latestCommitSHA' = commitResponse
    /\ i' = nextIndex(i)
    /\ IF i' >= 1
       THEN issue("getSubmissionData")
       ELSE return /\ UNCHANGED reqVars
    /\ UNCHANGED <<mode, config, leetcode, gitCommits, gitTrees, run, ckptVars, listVars,
                   submissionData, submission, treeResponse, commitResponse,
                   pageDelay, examined, prev>>

\* a call to the host fails: octokit throws and nothing catches it
HostCalls == {"listCommits", "repos_get", "createTree", "createCommit",
              "updateRef"}
octokit_throw ==
    /\ pc \in HostCalls
    /\ attempts' = attempts + 1
    /\ calls' = IF pc \in DOMAIN calls
                THEN [calls EXCEPT ![pc] = @ + 1]
                ELSE calls
    /\ throw([kind |-> "HttpError", request |-> pc, attempt |-> attempts + 1])
    /\ UNCHANGED <<mode, config, leetcode, hostVars, run, ckptVars, listVars, loopVars,
                   retryCount, waits, treeResponse, commitResponse, pageDelay,
                   examined, committed, prev>>

Next ==
    \/ sync
    \/ listCommits_ok
    \/ getSubmissions_ok
    \/ request_catch
    \/ repos_get_ok
    \/ getInfo_ok
    \/ getQuestionData_ok
    \/ getQuestionData_catch
    \/ commit_begin
    \/ createTree_ok
    \/ createCommit_ok
    \/ updateRef_ok
    \/ octokit_throw

Spec == Init /\ [][Next]_vars
SpecCk == InitCk /\ [][Next]_vars
SpecMain == InitMain /\ [][Next]_vars

(***************************************************************************)
(* Notions the properties are stated with.                                 *)
(***************************************************************************)
\* the SHAs of the history of a commit, newest first
RECURSIVE Chain(_, _)
Chain(store, sha) ==
    <<sha>> \o (IF store[sha].parents = <<>> THEN <<>>
                ELSE Chain(store, store[sha].parents[1]))

\* the entries of a listing in the opposite order
RECURSIVE Reverse(_)
Reverse(q) == IF q = <<>> THEN <<>> ELSE Append(Reverse(Tail(q)), Head(q))

\* the accepted entries of the source above a checkpoint, oldest first
RECURSIVE AcceptedAbove(_, _)
AcceptedAbove(src, mrt) ==
    IF src = <<>> THEN <<>>
    ELSE IF Head(src).statusDisplay = "Accepted" /\ Head(src).timestamp > mrt
         THEN Append(AcceptedAbove(Tail(src), mrt), Head(src))
         ELSE AcceptedAbove(Tail(src), mrt)

Ids(q) == [n \in 1..Len(q) |-> q[n].id]
IsPrefix(p, q) == Len(p) <= Len(q) /\ p = SubSeq(q, 1, Len(p))

\* the epoch seconds an ISO date stands for
SecondsOf(iso) == iso.day * 86400 + iso.msOfDay \div 1000
WholeSecond(iso) == iso.msOfDay % 1000 = 0

\* the run has read the branch; its pending submissions, oldest first
Resolved == commits # <<>>
Pending == AcceptedAbove(leetcode, mostRecentTimestamp)
StartHead == commits[1].sha

\* the commits the branch has gained since the run read it, oldest first
NewCommits ==
    LET now == Chain(gitCommits, ref)
        before == Chain(gitCommits, StartHead)
    IN  Reverse(SubSeq(now, 1, Len(now) - Len(before)))

\* the branch still ends in the history the run started from
KeepsStart ==
    LET now == Chain(gitCommits, ref)
        before == Chain(gitCommits, StartHead)
    IN  /\ Len(before) <= Len(now)
        /\ SubSeq(now, Len(now) - Len(before) + 1, Len(now)) = before

\* the n-th new commit is dated with the timestamp of the entry e
DatedAs(sha, e) ==
    /\ WholeSecond(gitCommits[sha].author.date)
    /\ SecondsOf(gitCommits[sha].author.date) = e.timestamp
    /\ gitCommits[sha].committer.date = gitCommits[sha].author.date

(***************************************************************************)
(* C1  Ordering.  When a run completes, the branch has gained exactly one  *)
(* commit per pending accepted submission, in ascending timestamp order:   *)
(* the first is the child of the head the run read, the last is the new    *)
(* head, and each is dated (author and committer) with the timestamp of    *)
(* its own submission.                                                     *)
(***************************************************************************)
C1_Ordering ==
    (outcome = "done") =>
        /\ KeepsStart
        /\ Len(NewCommits) = Len(Pending)
        /\ committed = Ids(Pending)
        /\ \A n \in 1..Len(Pending) :
              /\ DatedAs(NewCommits[n], Pending[n])
              /\ gitCommits[NewCommits[n]].parents =
                    <<IF n = 1 THEN StartHead ELSE NewCommits[n - 1]>>
        /\ Pending # <<>> => ref = NewCommits[Len(Pending)]
        /\ \A n \in 1..(Len(Pending) - 1) :
              Pending[n].timestamp < Pending[n + 1].timestamp

C1_Witness ==
    /\ outcome = "done"
    /\ Len(committed) >= 3
    /\ mostRecentTimestamp > 0

(***************************************************************************)
(* C2  Resume.  When the previous run failed after committing S1..Sk of    *)
(* its pending S1..SN, the next run resolves the timestamp of Sk as its    *)
(* checkpoint (for k = 0, the checkpoint the failed run had), commits only *)
(* Sk+1..SN, in order, and has committed all of them when it completes.    *)
(***************************************************************************)
PrevFailed == prev # <<>> /\ prev[1].outcome = "failed"

C2_Resume ==
    (PrevFailed /\ Resolved) =>
        LET k == Len(prev[1].committed)
            S == AcceptedAbove(leetcode,
                               IF prev[1].resolved
                               THEN prev[1].mostRecentTimestamp
                               ELSE mostRecentTimestamp)
            rest == SubSeq(S, k + 1, Len(S))
        IN  /\ prev[1].committed = Ids(SubSeq(S, 1, k))
            /\ k >= 1 => mostRecentTimestamp = S[k].timestamp
            /\ (k = 0 /\ prev[1].resolved) =>
                  mostRecentTimestamp = prev[1].mostRecentTimestamp
            /\ IsPrefix(committed, Ids(rest))
            /\ \A n \in 1..Len(committed) :
                  DatedAs(NewCommits[n], rest[n])
            /\ Len(NewCommits) = Len(committed)
            /\ outcome = "done" => committed = Ids(rest)

C2_Witness ==
    /\ PrevFailed
    /\ Len(prev[1].committed) >= 1
    /\ outcome = "done"
    /\ Len(committed) >= 2

(***************************************************************************)
(* C3  Idempotence.  A run that follows a completed run, the source being  *)
(* unchanged, calls neither createTree nor createCommit nor updateRef and  *)
(* leaves the host as it found it.                                         *)
(***************************************************************************)
PrevDone == prev # <<>> /\ prev[1].outcome = "done"

C3_Idempotence ==
    PrevDone =>
        /\ calls = NoCalls
        /\ committed = <<>>
        /\ Resolved => (ref = StartHead /\ submissions = <<>>)

C3_Witness ==
    /\ PrevDone
    /\ Len(prev[1].committed) >= 2
    /\ outcome = "done"

(***************************************************************************)
(* C4  Partial-failure validity.  At every point of a run, failed or not,  *)
(* the branch is the history the run read followed by the commits of the   *)
(* oldest k pending submissions, k being the number of submissions whose   *)
(* createTree, createCommit and updateRef all succeeded; the head is the   *)
(* head read at the start (k = 0) or the commit of the k-th; and no step   *)
(* takes a commit off the branch.                                          *)
(***************************************************************************)
C4_Valid ==
    Resolved =>
        LET k == Len(committed)
        IN  /\ KeepsStart
            /\ Len(NewCommits) = k
            /\ IsPrefix(committed, Ids(Pending))
            /\ \A n \in 1..k :
                  /\ DatedAs(NewCommits[n], Pending[n])
                  /\ gitCommits[NewCommits[n]].parents =
                        <<IF n = 1 THEN StartHead ELSE NewCommits[n - 1]>>
            /\ ref = IF k = 0 THEN StartHead ELSE latestCommitSHA
            /\ k > 0 => /\ ref = NewCommits[k]
                        /\ gitCommits[ref].tree = treeSHA
            /\ calls.updateRef \in {k, k + 1}

C4_NoRollback ==
    LET before == Chain(gitCommits, ref)
        after == Chain(gitCommits', ref')
    IN  /\ Len(before) <= Len(after)
        /\ SubSeq(after, Len(after) - Len(before) + 1, Len(after)) = before
        /\ \A sha \in 1..Len(gitCommits) : gitCommits'[sha] = gitCommits[sha]

C4_PartialFailure == [](C4_Valid) /\ [][C4_NoRollback]_vars

C4_Witness ==
    /\ outcome = "failed"
    /\ error[1].request = "updateRef"
    /\ Len(committed) >= 1
    /\ Len(gitCommits) > Len(Chain(gitCommits, ref))

(***************************************************************************)
(* Notions of the listing.                                                 *)
(***************************************************************************)
\* the page consumed last, and the places of its entries at or below the
\* checkpoint
Page == response[1].submissions
StopsIn(page) == {n \in 1..Len(page) : page[n].timestamp <= mostRecentTimestamp}
FirstOf(S) == CHOOSE n \in S : \A m \in S : n <= m
SourceIndex(id) == CHOOSE n \in 1..Len(leetcode) : leetcode[n].id = id
ListingFailed ==
    outcome = "failed" /\ error[1].request = "getSubmissions"

(***************************************************************************)
(* C5  Early exit.  The first entry of a page at or below the checkpoint   *)
(* ends the consumption, whatever its status and whatever hasNext says: it *)
(* is the last entry looked at, no listing request follows, and nothing at *)
(* or after it in the source is ever collected.  For a source of four      *)
(* accepted entries and the checkpoint at the second oldest, exactly the   *)
(* two newest are collected.                                               *)
(***************************************************************************)
C5_EarlyExit ==
    /\ (response # <<>> /\ StopsIn(Page) # {}) =>
          /\ examined = FirstOf(StopsIn(Page))
          /\ pc # "getSubmissions"
          /\ response[1] = submissionList(leetcode, offset, PageLimit)
    /\ \A n \in 1..Len(submissions) : \A m \in 1..Len(leetcode) :
          leetcode[m].timestamp <= mostRecentTimestamp =>
              SourceIndex(submissions[n].id) < m
    /\ ( /\ leetcode = [n \in 1..4 |-> Entry(5 - n, "golang")]
         /\ mostRecentTimestamp = TsBase + 2
         /\ response # <<>>
         /\ pc # "getSubmissions" ) => Ids(submissions) = <<4, 3>>

C5_Witness ==
    /\ response # <<>>
    /\ response[1].hasNext
    /\ StopsIn(Page) # {}
    /\ examined < Len(Page)
    /\ Page[examined].statusDisplay # "Accepted"
    /\ Page[examined + 1].statusDisplay = "Accepted"
    /\ pc = "repos_get"

(***************************************************************************)
(* C6  Filter.  An entry above the checkpoint that is not accepted is      *)
(* never collected and never committed, and it does not end the            *)
(* consumption: the entries after it on the page are looked at, and when   *)
(* no entry of the page is at or below the checkpoint and hasNext is true, *)
(* the next page is requested.                                             *)
(***************************************************************************)
SkippedAt(page, n) ==
    /\ page[n].statusDisplay # "Accepted"
    /\ \A m \in 1..n : page[m].timestamp > mostRecentTimestamp

C6_Filter ==
    /\ \A n \in 1..Len(submissions) :
          leetcode[SourceIndex(submissions[n].id)].statusDisplay = "Accepted"
    /\ \A n \in 1..Len(committed) :
          leetcode[SourceIndex(committed[n])].statusDisplay = "Accepted"
    /\ response # <<>> =>
          \A n \in 1..Len(Page) : SkippedAt(Page, n) =>
              /\ examined >= Min(n + 1, Len(Page))
              /\ (StopsIn(Page) = {} /\ response[1].hasNext) =>
                    /\ response[1] =
                          submissionList(leetcode, offset - PageLimit, PageLimit)
                    /\ pc = "getSubmissions" \/ ListingFailed

C6_Witness ==
    /\ response # <<>>
    /\ Len(Page) = 2
    /\ SkippedAt(Page, 1)
    /\ Page[2].statusDisplay = "Accepted"
    /\ response[1].hasNext
    /\ pc = "getSubmissions"
    /\ Len(submissions) = 1

(***************************************************************************)
(* C7  Checkpoint extraction.  Of the fetched commits, newest first, the   *)
(* first whose message starts with the marker gives the checkpoint: its    *)
(* committer date in epoch seconds and its author; with no marked commit   *)
(* the checkpoint is 0 and the author is that of the oldest fetched        *)
(* commit.                                                                 *)
(***************************************************************************)
Marked(n) ==
    /\ commits[n].commit.message # <<>>
    /\ commits[n].commit.message[1] = "["

C7_Checkpoint ==
    Resolved =>
        LET M == {n \in 1..Len(commits) : Marked(n)}
        IN  IF M # {}
            THEN /\ mostRecentTimestamp =
                        SecondsOf(commits[FirstOf(M)].commit.committer.date)
                 /\ commitInfo = commits[FirstOf(M)].commit.author
            ELSE /\ mostRecentTimestamp = 0
                 /\ commitInfo = commits[Len(commits)].commit.author

C7_Witness ==
    /\ Resolved
    /\ Len(commits) = 3
    /\ ~Marked(1) /\ Marked(2) /\ Marked(3)
    /\ commits[1].commit.message = InnerBracketMessage
    /\ commits[2].commit.author.name # commits[3].commit.author.name
    /\ mostRecentTimestamp = TsBase + 2
    /\ commitInfo.name = "bob"

(***************************************************************************)
(* C8  Extension-mapping failure.  A submission whose language has no      *)
(* extension never reaches createTree, createCommit or updateRef; the run  *)
(* fails on it, the younger submissions are not touched, and the commits   *)
(* of the older ones stay on the branch with the head at the last of them. *)
(***************************************************************************)
C8_NoExtension ==
    /\ pc \in {"createTree", "createCommit", "updateRef"} =>
          submission[1].lang = "golang"
    /\ (error # <<>> /\ error[1].kind = "NoExtension") =>
          LET k == Len(committed)
          IN  /\ outcome = "failed" /\ pc = "idle"
              /\ k < Len(Pending)
              /\ Pending[k + 1].lang # "golang"
              /\ submission[1].id = Pending[k + 1].id
              /\ committed = Ids(SubSeq(Pending, 1, k))
              /\ calls = [createTree |-> k, createCommit |-> k,
                          updateRef |-> k]
              /\ KeepsStart
              /\ Len(NewCommits) = k
              /\ ref = IF k = 0 THEN StartHead ELSE latestCommitSHA

C8_Witness ==
    /\ error # <<>>
    /\ error[1].kind = "NoExtension"
    /\ Len(committed) >= 1
    /\ Len(committed) + 1 < Len(Pending)

(***************************************************************************)
(* C9  Fast-fail on the first page.  The request for the first page is     *)
(* executed once: when it fails there is no wait and no second execution,  *)
(* the run fails, and no tree, commit or ref update has been made.         *)
(***************************************************************************)
C9_FastFail ==
    /\ (pc = "getSubmissions" /\ response = <<>>) =>
          /\ retryCount = 0 /\ attempts = 0
          /\ waits = <<>> /\ pageDelay = 0 /\ offset = 0
    /\ (ListingFailed /\ response = <<>>) =>
          /\ pc = "idle"
          /\ attempts = 1 /\ error[1].attempt = 1
          /\ waits = <<>> /\ pageDelay = 0 /\ offset = 0
          /\ calls = NoCalls /\ committed = <<>>
          /\ ref = StartHead

C9_Witness ==
    /\ ListingFailed
    /\ response = <<>>
    /\ Pending # <<>>

(***************************************************************************)
(* C10  Bounded retry with backoff.  A listing request after the first     *)
(* page and a submission-detail request are executed at most 5 + 1 times;  *)
(* retry k (k = 0, 1, ..) comes after a wait of 3^k seconds; and when the  *)
(* sixth execution fails, its failure is the one that ends the run.        *)
(***************************************************************************)
BackoffWaits == <<1000, 3000, 9000, 27000, 81000>>

Retried ==
    \/ pc = "getSubmissions" /\ response # <<>>
    \/ pc = "getSubmissionData"

C10_Retry ==
    /\ Retried =>
          /\ retryCount <= 5
          /\ attempts = retryCount
          /\ waits = SubSeq(BackoffWaits, 1, retryCount)
    /\ ( /\ outcome = "failed"
         /\ error[1].kind = "network"
         /\ ~(error[1].request = "getSubmissions" /\ response = <<>>) ) =>
          /\ pc = "idle"
          /\ attempts = 6
          /\ waits = BackoffWaits
          /\ error[1] = [kind |-> "network", request |-> error[1].request,
                         attempt |-> 6]

C10_Witness ==
    /\ ListingFailed
    /\ response # <<>>
    /\ attempts = 6
    /\ Len(submissions) >= 1
(***************************************************************************)
(* C11  Question lookups retry.  A question request that fails is executed *)
(* again, after a backoff wait, before the run can fail on it: a run that  *)
(* fails on a question lookup has executed it more than once.              *)
(***************************************************************************)
QuestionFailed ==
    outcome = "failed" /\ error[1].request = "getQuestionData"

C11_QuestionRetried ==
    QuestionFailed => (attempts > 1 /\ waits # <<>>)
(***************************************************************************)
(* C13  Inter-page delay.  No fixed delay is slept before the first        *)
(* listing request of a run; before every later listing request the fixed  *)
(* delay of one second is slept once, and the backoff waits of the retries *)
(* of that request come on top of it, unchanged.                           *)
(***************************************************************************)
C13_PageDelay ==
    /\ (pc = "getSubmissions" /\ response = <<>>) => pageDelay = 0
    /\ (ListingFailed /\ response = <<>>) => pageDelay = 0
    /\ (pc = "getSubmissions" /\ response # <<>>) =>
          /\ pageDelay = 1000
          /\ retryCount <= 5
          /\ waits = SubSeq(BackoffWaits, 1, retryCount)
    /\ (ListingFailed /\ response # <<>>) =>
          (pageDelay = 1000 /\ waits = BackoffWaits)

C13_Witness ==
    /\ pc = "getSubmissions"
    /\ response # <<>>
    /\ retryCount = 2
    /\ pageDelay = 1000
    /\ waits = <<1000, 3000>>

(***************************************************************************)
(* C17  Listing completeness.  With the source unchanged during the run    *)
(* and listed in strictly decreasing timestamp order, page k is requested  *)
(* at offset k times the page size, and when the pagination loop has ended *)
(* the collected list holds exactly the accepted entries above the         *)
(* checkpoint, each once, newest first.                                    *)
(***************************************************************************)
ListingDone ==
    /\ Resolved
    /\ response # <<>>
    /\ pc # "getSubmissions"
    /\ ~ListingFailed

Collected == [n \in 1..Len(submissions) |-> submissions[n].id]

C17_Complete ==
    /\ pc = "getSubmissions" =>
          /\ offset % PageLimit = 0
          /\ offset <= Len(leetcode)
          /\ Collected =
                Ids(Reverse(AcceptedAbove(SubSeq(leetcode, 1, offset),
                                          mostRecentTimestamp)))
    /\ ListingDone =>
          /\ Collected = Ids(Reverse(Pending))
          /\ \A n, m \in 1..Len(Collected) :
                n < m => leetcode[SourceIndex(Collected[n])].timestamp
                            > leetcode[SourceIndex(Collected[m])].timestamp

C17_Witness ==
    /\ ListingDone
    /\ Len(leetcode) = 4
    /\ offset = 2 * PageLimit
    /\ Len(submissions) = 3
    /\ mostRecentTimestamp = 0
(***************************************************************************)
(* C16  Pointer chaining.  The first commit of a run has the newest        *)
(* fetched commit as parent and its tree as base tree; every later one has *)
(* the commit and the tree returned by the commit operation before it.     *)
(* Every commit has one parent and the checkpoint's identity as author and *)
(* committer, and the branch points at it before the next submission is    *)
(* fetched.                                                                *)
(***************************************************************************)
Identity(stamp) == [name |-> stamp.name, email |-> stamp.email]

\* the commit object and its tree are chained on this parent commit
ChainedOn(sha, parent) ==
    /\ gitCommits[sha].parents = <<parent>>
    /\ gitTrees[gitCommits[sha].tree].base_tree = gitCommits[parent].tree
    /\ Identity(gitCommits[sha].author) = Identity(commitInfo)
    /\ Identity(gitCommits[sha].committer) = Identity(commitInfo)

C16_Chaining ==
    Resolved =>
        /\ \A n \in 1..Len(NewCommits) :
              ChainedOn(NewCommits[n],
                        IF n = 1 THEN StartHead ELSE NewCommits[n - 1])
        /\ pc \in {"createCommit", "updateRef"} =>
              gitTrees[treeResponse].base_tree = gitCommits[ref].tree
        /\ pc = "updateRef" =>
              /\ ChainedOn(commitResponse, ref)
              /\ gitCommits[commitResponse].tree = treeResponse
        /\ pc \in {"getSubmissionData", "getQuestionData", "commit"} =>
              /\ Len(NewCommits) = Len(committed)
              /\ latestCommitSHA = ref
              /\ treeSHA = gitCommits[ref].tree
              /\ i = Len(submissions) - Len(committed)

C16_Witness ==
    /\ pc = "updateRef"
    /\ Len(NewCommits) = 2
    /\ commitInfo.name = "alice"
(***************************************************************************)
(* C20  Termination.  Every request of a run is answered, by a response or *)
(* by a failure; then every run comes to its end, completed or failed:     *)
(* neither the pagination loop, nor the retries, nor the loop over the     *)
(* submissions goes on forever.                                            *)
(***************************************************************************)
\* runs that start without a checkpoint, so that every entry of the source is
\* listed and every accepted one committed
InitLive == InitWith({<<<<PlainMessage, alice, TsBase>>>>}, Sources)

FairSpec == InitLive /\ [][Next]_vars /\ WF_vars(Next)

C20_Termination == (outcome = "running") ~> (outcome \in {"done", "failed"})

C20_Witness ==
    /\ outcome = "done"
    /\ run = 2
    /\ Len(committed) >= 1
    /\ prev[1].outcome = "failed"
(***************************************************************************)
(* C14  Error propagation.  A run that fails ends at main's catch, which   *)
(* logs the failure; a run ends as done only when every collected          *)
(* submission is committed; and the failure of a network request is the    *)
(* failure that reaches main: it is not swallowed on the way.              *)
(***************************************************************************)
NetworkRequests == {"getSubmissions", "getSubmissionData", "getQuestionData"}

C14_Propagation ==
    /\ outcome = "failed" =>
          /\ pc = "idle"
          /\ report # <<>>
          /\ report[1].setFailed
          /\ error[1].request \in NetworkRequests =>
                (error[1].kind = "network" /\ report[1].log = "network")
    /\ outcome = "done" =>
          (report = <<>> /\ Collected = Reverse(committed))

(***************************************************************************)
(* C15  Configuration errors.  In either mode, when a credential the mode  *)
(* needs is not set, the program fails without a request to the host or to *)
(* the source: no run is under way and none completes.                     *)
(***************************************************************************)
\* the hosted action takes the repository from its context
Required == IF mode = "test" THEN Credentials
            ELSE Credentials \ {"GITHUB_REPO"}

C15_ConfigChecked ==
    (Required \ config # {}) =>
        /\ pc = "idle"
        /\ outcome \in {"none", "failed"}
        /\ commits = <<>> /\ response = <<>>

\* what holds of the code: TEST_MODE without its configuration
C15_TestModeChecked ==
    (mode = "test" /\ config # Credentials) =>
        /\ pc = "idle"
        /\ outcome \in {"none", "failed"}
        /\ commits = <<>> /\ response = <<>>
\* the parts of C14 that hold of the code: a failed run is reported by
\* main's catch, and a run ends as done only with everything committed
C14_Reported ==
    /\ outcome = "failed" => (pc = "idle" /\ report # <<>>)
    /\ outcome = "done" => (report = <<>> /\ Collected = Reverse(committed))
(***************************************************************************)
(* Another writer of the branch.  A push appends n commits without the     *)
(* marker on top of the branch and moves the reference to the last one.    *)
(***************************************************************************)
ForeignMessage == <<"f", "i", "x">>

pushed(store, head, n) ==
    LET stamp == [name |-> bob.name, email |-> bob.email,
                  date |-> toISOString(TsBase * 1000)]
    IN  store \o
        [k \in 1..n |->
            [message |-> ForeignMessage,
             tree |-> store[head].tree,
             parents |-> <<IF k = 1 THEN head ELSE Len(store) + k - 1>>,
             author |-> stamp, committer |-> stamp]]

NoForeign == \A k \in DOMAIN gitCommits : gitCommits[k].message # ForeignMessage

\* the sizes of a push: one commit, one less than the commits sync lists,
\* and as many as it lists
PushSizes == {1, per_page - 1, per_page}

\* between two runs, the other writer pushes to the branch
other_push_idle ==
    /\ pc = "idle"
    /\ run >= 1
    /\ run < MaxRuns
    /\ NoForeign
    /\ \E n \in PushSizes :
          /\ gitCommits' = pushed(gitCommits, ref, n)
          /\ ref' = Len(gitCommits) + n
    /\ UNCHANGED <<mode, config, report, leetcode, gitTrees, pc, outcome,
                   error, run, ckptVars, listVars, loopVars, reqVars,
                   treeResponse, commitResponse, obsVars>>

NextPush == Next \/ other_push_idle

\* a repository whose last sync commit carries the second submission
InitPush ==
    InitWith({<<<<SyncMessage, alice, TsBase + 2>>,
                <<PlainMessage, alice, TsBase>>>>},
             {Listing(f, MaxTs) : f \in [1..MaxTs -> {"wrong", "golang"}]})

SpecPush == InitPush /\ [][NextPush]_vars

(***************************************************************************)
(* C12  Checkpoint monotonicity.  The checkpoint a run resolves is never   *)
(* below the checkpoint the run before it resolved, also when commits      *)
(* without the marker were added to the branch between the two runs.       *)
(***************************************************************************)
C12_Monotone ==
    (Resolved /\ prev # <<>> /\ prev[1].resolved) =>
        mostRecentTimestamp >= prev[1].mostRecentTimestamp

\* what holds of the code: the same, as long as a marked commit is among
\* the per_page newest commits of the branch
MarkerListed ==
    \E n \in 1..Len(commits) :
        startsWith(commits[n].commit.message, COMMIT_MESSAGE)

C12_MonotoneListed ==
    (Resolved /\ MarkerListed /\ prev # <<>> /\ prev[1].resolved) =>
        mostRecentTimestamp >= prev[1].mostRecentTimestamp
(***************************************************************************)
(* Concurrency.  While sync runs, the user may submit again (the entry     *)
(* appears at the front of the listing, with a newer timestamp) and the    *)
(* other writer may push to the branch.                                    *)
(***************************************************************************)
NewId == IF leetcode = <<>> \/ leetcode[1].id < MaxTs THEN MaxTs + 1
         ELSE leetcode[1].id + 1

\* a submission is made during the first run
leetcode_submit ==
    /\ outcome = "running"
    /\ run = 1
    /\ NewId <= MaxTs + MaxNew
    /\ \E kind \in {"wrong", "golang"} :
          leetcode' = <<Entry(NewId, kind)>> \o leetcode
    /\ UNCHANGED <<mode, config, report, hostVars, pc, outcome, error, run,
                   ckptVars, listVars, loopVars, reqVars, treeResponse,
                   commitResponse, obsVars>>

\* the other writer pushes one commit after the run has listed the commits
other_push_running ==
    /\ outcome = "running"
    /\ Resolved
    /\ NoForeign
    /\ gitCommits' = pushed(gitCommits, ref, 1)
    /\ ref' = Len(gitCommits) + 1
    /\ UNCHANGED <<mode, config, report, leetcode, gitTrees, pc, outcome,
                   error, run, ckptVars, listVars, loopVars, reqVars,
                   treeResponse, commitResponse, obsVars>>

NextConc == Next \/ leetcode_submit \/ other_push_running

\* a repository without a checkpoint and sources without rust entries
InitConc ==
    InitWith({<<<<PlainMessage, alice, TsBase>>>>},
             {Listing(f, MaxTs) : f \in [1..MaxTs -> {"wrong", "golang"}]})

SpecConc == InitConc /\ [][NextConc]_vars

\* no element occurs twice
NoRepeat(q) == \A m, n \in 1..Len(q) : q[m] = q[n] => m = n

\* the timestamps of the sync commits in the history of the branch
SyncedSeconds ==
    LET h == Chain(gitCommits, ref)
    IN  {SecondsOf(gitCommits[h[n]].committer.date) :
            n \in {m \in 1..Len(h) :
                      startsWith(gitCommits[h[m]].message, COMMIT_MESSAGE)}}

(***************************************************************************)
(* C18  No duplicate commits under concurrent submissions.  Within a run   *)
(* no submission id is collected twice or committed twice, also when a     *)
(* submission is made between two page fetches; and once the run after is  *)
(* complete, every accepted submission, the new one included, is in the    *)
(* history of the branch.                                                  *)
(***************************************************************************)
C18_NeverLost ==
    (run >= 2 /\ outcome = "done") =>
        \A n \in 1..Len(leetcode) :
            leetcode[n].statusDisplay = "Accepted" =>
                leetcode[n].timestamp \in SyncedSeconds

C18_NoDuplicates ==
    /\ NoRepeat(Collected)
    /\ NoRepeat(committed)
    /\ C18_NeverLost

(***************************************************************************)
(* C19  No lost updates on the branch.  At every reference update of a     *)
(* run, the commit the branch pointed to just before is in the history of  *)
(* the commit it points to afterwards, also when the other writer has      *)
(* pushed since the run listed the commits.                                *)
(***************************************************************************)
C19_UpdateKeeps ==
    (pc = "updateRef" /\ ref' # ref) =>
        \E n \in 1..Len(Chain(gitCommits', ref')) :
            Chain(gitCommits', ref')[n] = ref

C19_NoLostUpdate == [][C19_UpdateKeeps]_vars
====
